---- MODULE Spec2Model ----
(***************************************************************************)
(* Model of totalhash_service/__init__.py: TotalHashService._scan and      *)
(* TotalHashService._get_pehash.                                           *)
(*                                                                         *)
(* Header fields are unsigned integers of up to 32 bits.  They are kept    *)
(* as pairs <<hi, lo>> of 16-bit halves (value = hi * 65536 + lo), so      *)
(* that every 32-bit value is representable.  A bitstring.BitArray is a    *)
(* sequence of bits (0/1), most significant bit first, as bitstring        *)
(* indexes it.  hex() is modelled for a platform whose int holds 32 bits   *)
(* unsigned (64-bit CPython 2 on Linux): no trailing 'L'.                  *)
(***************************************************************************)
EXTENDS Integers, Sequences, FiniteSets, TLC

(***************************************************************************)
(* Bounds of the model.                                                    *)
(***************************************************************************)
MaxSections == 2

(***************************************************************************)
(* Integer and sequence helpers.                                           *)
(***************************************************************************)
Pow2(n) == 2 ^ n

Min(a, b) == IF a <= b THEN a ELSE b

Zeros(n) == [i \in 1..n |-> 0]

U(hi, lo) == <<hi, lo>>

(***************************************************************************)
(* hex(x): the hexadecimal digits of x without leading zeros ("0x0" for    *)
(* zero), most significant digit first.                                    *)
(***************************************************************************)
Nibble(v, i) ==
    IF i <= 4 THEN (v[1] \div (16 ^ (4 - i))) % 16
              ELSE (v[2] \div (16 ^ (8 - i))) % 16

HexLen(v) ==
    IF \A i \in 1..8 : Nibble(v, i) = 0
    THEN 1
    ELSE 9 - (CHOOSE i \in 1..8 :
                 /\ Nibble(v, i) # 0
                 /\ \A j \in 1..(i - 1) : Nibble(v, j) = 0)

hex(v) == [i \in 1..HexLen(v) |-> Nibble(v, 8 - HexLen(v) + i)]

(***************************************************************************)
(* bitstring.BitArray(<hex string>): four bits per hexadecimal digit.      *)
(***************************************************************************)
BitArray(h) ==
    [i \in 1..(4 * Len(h)) |->
        (h[((i - 1) \div 4) + 1] \div (2 ^ (3 - ((i - 1) % 4)))) % 2]

(***************************************************************************)
(* BitArray(bytes=b.tobytes()): tobytes() appends zero bits up to the next *)
(* byte boundary.                                                          *)
(***************************************************************************)
tobytes(b) == b \o Zeros((8 - (Len(b) % 8)) % 8)

(***************************************************************************)
(* BitArray(bin=string.zfill(b.bin, width)): zeros are put in front until  *)
(* the string has width characters; a longer string is left as it is.      *)
(***************************************************************************)
zfill(b, width) == IF Len(b) >= width THEN b ELSE Zeros(width - Len(b)) \o b

(***************************************************************************)
(* b[start:stop]: the bits at positions start .. stop-1 (0-based, stop     *)
(* excluded), both ends clipped to the length of b.                        *)
(***************************************************************************)
Slice(b, start, stop) == SubSeq(b, start + 1, Min(stop, Len(b)))

(***************************************************************************)
(* a ^ b: bitwise exclusive or; bitstring raises ValueError when the       *)
(* lengths differ.  The result is a record: ok = FALSE is the ValueError.  *)
(* Two empty bitstrings have equal lengths: their exclusive or is empty.   *)
(***************************************************************************)
Raised == [ok |-> FALSE, bits |-> <<>>]

Value(b) == [ok |-> TRUE, bits |-> b]

Xor(a, b) ==
    IF Len(a) # Len(b) THEN Raised
    ELSE Value([i \in 1..Len(a) |-> (a[i] + b[i]) % 2])

Xor3(a, b, c) ==
    IF Xor(a, b).ok THEN Xor(Xor(a, b).bits, c) ELSE Raised

(***************************************************************************)
(* bitstring.BitArray(float=a/b, length=32): the IEEE-754 single precision *)
(* encoding of the quotient a/b (true division, line 9), rounded to        *)
(* nearest.  Only its first nine bits (sign, biased exponent) are built:   *)
(* the code reads bits 0..6 only.  a is a positive integer below 2^15, b a *)
(* positive 32-bit value <<hi, lo>>.                                       *)
(***************************************************************************)
FloorLog2(q) == CHOOSE e \in 0..15 : Pow2(e) <= q /\ q < Pow2(e + 1)

\* ceil(b / a), by long division of <<hi, lo>> in base 65536
CeilDiv(b, a) ==
    LET t == (b[1] % a) * 65536 + b[2]
    IN  (b[1] \div a) * 65536 + (t \div a) + (IF t % a = 0 THEN 0 ELSE 1)

\* the least n with 2^n >= q
CeilLog2(q) == CHOOSE n \in 0..30 : Pow2(n) >= q /\ (n = 0 \/ Pow2(n - 1) < q)

\* b - floor(b / 2^25)
LessUlp(b) ==
    LET d == b[1] \div 512
    IN  IF b[2] >= d THEN <<b[1], b[2] - d>> ELSE <<b[1] - 1, b[2] + 65536 - d>>

BiasedExponent(a, b) ==
    IF b[1] = 0 /\ b[2] <= a
    THEN 127 + FloorLog2(a \div b[2])
    ELSE LET n == CeilLog2(CeilDiv(b, a))
             \* a/b lies in [2^-n, 2^-(n-1)); it rounds up to 2^-(n-1) when
             \* it is within half a unit of the last place of that power
             up == Pow2(n - 1) >= CeilDiv(LessUlp(b), a)
         IN  127 - n + (IF up THEN 1 ELSE 0)

Float32(a, b) ==
    <<0>> \o [i \in 1..8 |-> (BiasedExponent(a, b) \div Pow2(8 - i)) % 2]

(***************************************************************************)
(* The fragments of _get_pehash, one operator per block of the function.   *)
(***************************************************************************)
img_chars_xor(Characteristics) ==
    LET img_chars == tobytes(BitArray(hex(Characteristics)))
    IN  Xor(Slice(img_chars, 0, 7), Slice(img_chars, 8, 15))

sub_chars_xor(Machine) ==
    LET sub_chars == tobytes(BitArray(hex(Machine)))
    IN  Xor(Slice(sub_chars, 0, 7), Slice(sub_chars, 8, 15))

stk_size_xor(SizeOfStackCommit) ==
    LET stk_size == zfill(BitArray(hex(SizeOfStackCommit)), 32)
        x == Xor3(Slice(stk_size, 8, 15), Slice(stk_size, 16, 23),
                  Slice(stk_size, 24, 31))
    IN  IF x.ok THEN Value(tobytes(x.bits)) ELSE Raised

hp_size_xor(SizeOfHeapCommit) ==
    LET hp_size == zfill(BitArray(hex(SizeOfHeapCommit)), 32)
        x == Xor3(Slice(hp_size, 8, 15), Slice(hp_size, 16, 23),
                  Slice(hp_size, 24, 31))
    IN  IF x.ok THEN Value(tobytes(x.bits)) ELSE Raised

\* sect_va without line 300: the address is not packed to whole bytes
sect_va_NotPacked(VirtualAddress) == BitArray(hex(VirtualAddress))

sect_va(VirtualAddress) == tobytes(BitArray(hex(VirtualAddress)))

\* sect_rs_bits with the slice of line 309 taken up to and including bit 31
sect_rs_bits_Through31(SizeOfRawData) ==
    LET sect_rs == tobytes(zfill(tobytes(BitArray(hex(SizeOfRawData))), 32))
    IN  Slice(sect_rs, 8, 32)

sect_rs_bits(SizeOfRawData) ==
    LET sect_rs == tobytes(zfill(tobytes(BitArray(hex(SizeOfRawData))), 32))
    IN  Slice(sect_rs, 8, 31)

sect_chars_xor(Characteristics) ==
    LET sect_chars == tobytes(BitArray(hex(Characteristics)))
    IN  Xor(Slice(sect_chars, 16, 23), Slice(sect_chars, 24, 31))

(***************************************************************************)
(* len(bz2.compress(exe.write()[address+size:])).  The image bytes are not *)
(* modelled; the image carries, for every offset inside it, the length of  *)
(* the compressed tail that starts there (tail_bz2[offset + 1]).  A slice  *)
(* that starts at or after the end of the image is empty, and compressing  *)
(* the empty string gives a 14-byte stream.                                *)
(***************************************************************************)
EmptyBz2Size == 14

bz2_size(image, address, size) ==
    IF /\ address[1] = 0
       /\ size[1] = 0
       /\ address[2] + size[2] < Len(image.tail_bz2)
    THEN image.tail_bz2[address[2] + size[2] + 1]
    ELSE EmptyBz2Size

kolmog(image, section) ==
    IF section.SizeOfRawData = U(0, 0)
    THEN Float32(1, U(0, 1))
    ELSE Float32(bz2_size(image, section.VirtualAddress, section.SizeOfRawData),
                 section.SizeOfRawData)

\* hashlib.sha1(bytes).hexdigest(): SHA-1 is not computed; the digest is the
\* tagged byte string, so two digests are equal exactly when their inputs are
hexdigest(bytes) == <<"sha1", bytes>>

(***************************************************************************)
(* Inputs.  An image is what pefile.PE hands to _get_pehash: the four      *)
(* header fields, the section table in table order, and (for bz2) the      *)
(* compressed lengths of the tails of the image bytes.                     *)
(***************************************************************************)
SectionSet ==
    { [VirtualAddress |-> U(0, \h1000), SizeOfRawData |-> U(0, 0),
       Characteristics |-> U(\h6000, \h0020)],
      [VirtualAddress |-> U(0, \h1000), SizeOfRawData |-> U(0, \h0020),
       Characteristics |-> U(\h6000, \h0020)],
      [VirtualAddress |-> U(0, 0), SizeOfRawData |-> U(0, 1),
       Characteristics |-> U(\hC000, \h0040)],
      [VirtualAddress |-> U(\h0001, \h2000), SizeOfRawData |-> U(\h1000, \h0010),
       Characteristics |-> U(0, \h0020)],
      [VirtualAddress |-> U(0, \h3000), SizeOfRawData |-> U(0, 0),
       Characteristics |-> U(\h0600, \h0020)],
      [VirtualAddress |-> U(0, \h4000), SizeOfRawData |-> U(0, \h0200),
       Characteristics |-> U(\h0020, \h0020)] }

SectionTables == UNION { [1..n -> SectionSet] : n \in 0..MaxSections }

Images ==
    [ Characteristics   : { U(0, \h0102), U(0, \h0022) },
      Machine           : { U(0, \h014C), U(0, \h8664), U(0, 0) },
      SizeOfStackCommit : { U(0, \h1000), U(\h0010, 0) },
      SizeOfHeapCommit  : { U(0, \h1000), U(0, 0) },
      sections          : SectionTables,
      tail_bz2          : { <<37>>, <<39, 37>> } ]

\* th_api_key of the service configuration: empty, or a key
ApiKeys == { "", "key" }

(***************************************************************************)
(* The response of Totalhash, parsed: whether the root element has its     *)
(* 'time' attribute, and the elements below it in document order.  attrs   *)
(* tells whether an element has the attributes the code reads; filename    *)
(* is the 'filename' attribute of a process element.                       *)
(***************************************************************************)
Element(tag, attrs, filename) ==
    [tag |-> tag, attrs |-> attrs, filename |-> filename]

XmlDocs ==
    { [time |-> TRUE, elems |-> <<>>],
      [time |-> FALSE, elems |-> <<Element("av", TRUE, "")>>],
      [time |-> TRUE,
       elems |-> <<Element("http", TRUE, ""), Element("av", TRUE, ""),
                   Element("process", TRUE, ""), Element("process", TRUE, "a.exe"),
                   Element("running_process", TRUE, "b.exe"),
                   Element("flows", TRUE, ""), Element("dns", TRUE, "")>>],
      [time |-> TRUE,
       elems |-> <<Element("av", TRUE, ""), Element("av", FALSE, ""),
                   Element("av", TRUE, "")>>],
      [time |-> TRUE,
       elems |-> <<Element("dns", TRUE, ""), Element("flows", FALSE, "")>>] }

NoDoc == [time |-> FALSE, elems |-> <<>>]

(***************************************************************************)
(* State.                                                                  *)
(*   exe        the parsed image (pefile.PE)                               *)
(*   key        config th_api_key                                          *)
(*   pc         the statement _scan / _get_pehash is at, or how it ended   *)
(*   sect       index of the section the for loop of line 297 is at        *)
(*   pehash_bin the bit buffer of _get_pehash                              *)
(*   appended   the fragments put into pehash_bin so far, in order         *)
(*   results    the results added with _add_result, in order               *)
(*   log        the messages given to _error / _info, in order             *)
(*   requests   number of calls of urllib2.urlopen                         *)
(*   root       the parsed response (etree.fromstring)                     *)
(***************************************************************************)
VARIABLES exe, key, pc, sect, pehash_bin, appended, results, log, requests, root

vars == <<exe, key, pc, sect, pehash_bin, appended, results, log, requests, root>>

Init ==
    /\ exe \in Images
    /\ key \in ApiKeys
    /\ pc = "scan"
    /\ sect = 0
    /\ pehash_bin = <<>>
    /\ appended = <<>>
    /\ results = <<>>
    /\ log = <<>>
    /\ requests = 0
    /\ root = NoDoc

Result(subtype, result) == [subtype |-> subtype, result |-> result]

\* pehash_bin.append(bits), written as the fragment kind of section s
Append_(kind, s, bits) ==
    /\ pehash_bin' = pehash_bin \o bits
    /\ appended' = Append(appended, [kind |-> kind, sect |-> s, bits |-> bits])

\* an exception leaves _scan: nothing else of the state changes
Raise ==
    /\ pc' = "raised"
    /\ UNCHANGED <<exe, key, sect, pehash_bin, appended, results, log, requests, root>>

\* NextSection with the loop bound off by one: the last section is left out
NextSection_SkipsLast ==
    /\ sect' = sect + 1
    /\ pc' = IF sect + 1 < Len(exe.sections) THEN "sect_va" ELSE "sha1"

\* the statement after a section's last fragment: the next section, or line 333
NextSection ==
    /\ sect' = sect + 1
    /\ pc' = IF sect + 1 <= Len(exe.sections) THEN "sect_va" ELSE "sha1"

(***************************************************************************)
(* _scan, lines 63-68.                                                     *)
(***************************************************************************)
PEParse ==
    /\ pc = "scan"
    /\ \/ /\ pc' = "ret_peformat"
          /\ log' = Append(log, "error: A PEFormatError occurred")
       \/ /\ pc' = "img_chars"
          /\ log' = log
    /\ UNCHANGED <<exe, key, sect, pehash_bin, appended, results, requests, root>>

(***************************************************************************)
(* _get_pehash, lines 259-336.                                             *)
(***************************************************************************)
ImageCharacteristics ==
    /\ pc = "img_chars"
    /\ LET x == img_chars_xor(exe.Characteristics)
       IN  IF x.ok
           THEN /\ Append_("img_chars", 0, x.bits)
                /\ pc' = "sub_chars"
                /\ UNCHANGED <<exe, key, sect, results, log, requests, root>>
           ELSE Raise

Subsystem ==
    /\ pc = "sub_chars"
    /\ LET x == sub_chars_xor(exe.Machine)
       IN  IF x.ok
           THEN /\ Append_("sub_chars", 0, x.bits)
                /\ pc' = "stk_size"
                /\ UNCHANGED <<exe, key, sect, results, log, requests, root>>
           ELSE Raise

StackCommitSize ==
    /\ pc = "stk_size"
    /\ LET x == stk_size_xor(exe.SizeOfStackCommit)
       IN  IF x.ok
           THEN /\ Append_("stk_size", 0, x.bits)
                /\ pc' = "hp_size"
                /\ UNCHANGED <<exe, key, sect, results, log, requests, root>>
           ELSE Raise

HeapCommitSize ==
    /\ pc = "hp_size"
    /\ LET x == hp_size_xor(exe.SizeOfHeapCommit)
       IN  IF x.ok
           THEN /\ Append_("hp_size", 0, x.bits)
                /\ NextSection
                /\ UNCHANGED <<exe, key, results, log, requests, root>>
           ELSE Raise

VirtualAddress ==
    /\ pc = "sect_va"
    /\ Append_("sect_va", sect, sect_va(exe.sections[sect].VirtualAddress))
    /\ pc' = "sect_rs"
    /\ UNCHANGED <<exe, key, sect, results, log, requests, root>>

RawSize ==
    /\ pc = "sect_rs"
    /\ Append_("sect_rs", sect, sect_rs_bits(exe.sections[sect].SizeOfRawData))
    /\ pc' = "sect_chars"
    /\ UNCHANGED <<exe, key, sect, results, log, requests, root>>

SectionChars ==
    /\ pc = "sect_chars"
    /\ LET x == sect_chars_xor(exe.sections[sect].Characteristics)
       IN  IF x.ok
           THEN /\ Append_("sect_chars", sect, x.bits)
                /\ pc' = "entropy"
                /\ UNCHANGED <<exe, key, sect, results, log, requests, root>>
           ELSE Raise

\* Entropy whose size == 0 branch goes on with the loop without appending
Entropy_EmptyNotAppended ==
    /\ pc = "entropy"
    /\ IF exe.sections[sect].SizeOfRawData = U(0, 0)
       THEN UNCHANGED <<pehash_bin, appended>>
       ELSE Append_("kolmog", sect, Slice(kolmog(exe, exe.sections[sect]), 0, 7))
    /\ NextSection
    /\ UNCHANGED <<exe, key, results, log, requests, root>>

\* lines 318-331: both branches append kolmog[0:7] and go on with the loop
Entropy ==
    /\ pc = "entropy"
    /\ Append_("kolmog", sect, Slice(kolmog(exe, exe.sections[sect]), 0, 7))
    /\ NextSection
    /\ UNCHANGED <<exe, key, results, log, requests, root>>

Sha1 ==
    /\ pc = "sha1"
    /\ results' = Append(results, Result("PEhash value", hexdigest(tobytes(pehash_bin))))
    /\ pc' = "key"
    /\ UNCHANGED <<exe, key, sect, pehash_bin, appended, log, requests, root>>

(***************************************************************************)
(* _scan, lines 70-107: the Totalhash lookup.                              *)
(***************************************************************************)
\* ApiKey without the return of line 82: the request is made with an empty key
ApiKey_NoReturn ==
    /\ pc = "key"
    /\ IF key = ""
       THEN /\ results' = Append(results, Result("Analysis Link", "url"))
            /\ log' = Append(log, "info: No API key, not checking Totalhash.")
       ELSE UNCHANGED <<results, log>>
    /\ pc' = "urlopen"
    /\ UNCHANGED <<exe, key, sect, pehash_bin, appended, requests, root>>

ApiKey ==
    /\ pc = "key"
    /\ IF key = ""
       THEN /\ results' = Append(results, Result("Analysis Link", "url"))
            /\ log' = Append(log, "info: No API key, not checking Totalhash.")
            /\ pc' = "ret_nokey"
       ELSE /\ pc' = "urlopen"
            /\ UNCHANGED <<results, log>>
    /\ UNCHANGED <<exe, key, sect, pehash_bin, appended, requests, root>>

UrlOpen ==
    /\ pc = "urlopen"
    /\ requests' = requests + 1
    /\ \/ /\ pc' = "ret_network"
          /\ log' = Append(log, "info: Network connection error checking totalhash")
       \/ /\ pc' = "fromstring"
          /\ log' = log
    /\ UNCHANGED <<exe, key, sect, pehash_bin, appended, results, root>>

FromString ==
    /\ pc = "fromstring"
    /\ \/ /\ pc' = "ret_parse"
          /\ log' = Append(log, "error: Error parsing results")
          /\ root' = root
       \/ /\ pc' = "metadata"
          /\ root' \in XmlDocs
          /\ log' = log
    /\ UNCHANGED <<exe, key, sect, pehash_bin, appended, results, requests>>

(***************************************************************************)
(* _scan, lines 109-257: the results of the report.  Each for loop walks   *)
(* the elements of one tag in document order and adds one result per       *)
(* element; reading an attribute the element lacks raises KeyError, which  *)
(* leaves _scan with the results added so far.                             *)
(***************************************************************************)
Elements(tag) == SelectSeq(root.elems, LAMBDA e : e.tag = tag)

\* the elements the loop gets through: all, or those before the first one
\* that lacks an attribute
Walked(es) ==
    IF \A i \in 1..Len(es) : es[i].attrs
    THEN es
    ELSE SubSeq(es, 1, (CHOOSE i \in 1..Len(es) :
                           /\ ~es[i].attrs
                           /\ \A j \in 1..(i - 1) : es[j].attrs) - 1)

Loop(tag, subtype, skip_empty, next) ==
    LET es == Elements(tag)
        kept == IF skip_empty
                THEN SelectSeq(Walked(es), LAMBDA e : e.filename # "")
                ELSE Walked(es)
    IN  /\ results' = results \o [i \in 1..Len(kept) |-> Result(subtype, tag)]
        /\ pc' = IF Len(Walked(es)) = Len(es) THEN next ELSE "raised"
        /\ UNCHANGED <<exe, key, sect, pehash_bin, appended, log, requests, root>>

Metadata ==
    /\ pc = "metadata"
    /\ IF root.time
       THEN /\ results' = Append(results, Result("Analysis Metadata", "time"))
            /\ pc' = "av"
            /\ UNCHANGED <<exe, key, sect, pehash_bin, appended, log, requests, root>>
       ELSE Raise

AV == pc = "av" /\ Loop("av", "AV", FALSE, "process")

Processes == pc = "process" /\ Loop("process", "Processes", TRUE, "running_process")

RunningProcesses ==
    pc = "running_process" /\ Loop("running_process", "Running processes", FALSE, "flows")

Flows == pc = "flows" /\ Loop("flows", "Flows", FALSE, "dns")

DNS == pc = "dns" /\ Loop("dns", "DNS", FALSE, "http")

HTTP == pc = "http" /\ Loop("http", "HTTP", FALSE, "done")

Next ==
    \/ PEParse
    \/ ImageCharacteristics
    \/ Subsystem
    \/ StackCommitSize
    \/ HeapCommitSize
    \/ VirtualAddress
    \/ RawSize
    \/ SectionChars
    \/ Entropy
    \/ Sha1
    \/ ApiKey
    \/ UrlOpen
    \/ FromString
    \/ Metadata
    \/ AV
    \/ Processes
    \/ RunningProcesses
    \/ Flows
    \/ DNS
    \/ HTTP

Spec == Init /\ [][Next]_vars

(***************************************************************************)
(* Vocabulary of the properties.                                           *)
(***************************************************************************)
RECURSIVE Flatten(_)
Flatten(fs) == IF fs = <<>> THEN <<>> ELSE fs[1].bits \o Flatten(Tail(fs))

\* the fragments in the order of the design: four for the image, then four
\* for each section in table order
ScalarOrder ==
    << <<"img_chars", 0>>, <<"sub_chars", 0>>, <<"stk_size", 0>>, <<"hp_size", 0>> >>

RECURSIVE SectionOrder(_, _)
SectionOrder(i, n) ==
    IF i > n THEN <<>>
    ELSE << <<"sect_va", i>>, <<"sect_rs", i>>, <<"sect_chars", i>>, <<"kolmog", i>> >>
         \o SectionOrder(i + 1, n)

FragmentOrder(image) == ScalarOrder \o SectionOrder(1, Len(image.sections))

PehashResults == { i \in DOMAIN results : results[i].subtype = "PEhash value" }

LookupDerived ==
    { "Analysis Metadata", "AV", "Processes", "Running processes", "Flows", "DNS", "HTTP" }

LookupPcs ==
    { "key", "urlopen", "fromstring", "metadata", "av", "process", "running_process",
      "flows", "dns", "http", "done", "ret_nokey", "ret_network", "ret_parse" }

\* bits of the w-bit big-endian representation of v, w <= 32
Bits(v, w) == SubSeq(BitArray([i \in 1..8 |-> Nibble(v, i)]), 33 - w, 32)

Xor8(a, b) == [i \in 1..8 |-> (a[i] + b[i]) % 2]

(***************************************************************************)
(* C3.  No partial digest: the 'PEhash value' result is added at most      *)
(* once, only when the four image fragments and the four fragments of      *)
(* every section have been appended, and its value is the digest of the    *)
(* whole buffer; after a PEFormatError an error is reported and there is   *)
(* no result.                                                              *)
(***************************************************************************)
C3_NoPartialDigest ==
    /\ Cardinality(PehashResults) <= 1
    /\ \A i \in PehashResults :
          /\ Len(appended) = 4 + 4 * Len(exe.sections)
          /\ \A s \in 1..Len(exe.sections) :
                Cardinality({ j \in DOMAIN appended : appended[j].sect = s }) = 4
          /\ results[i].result = hexdigest(tobytes(Flatten(appended)))
    /\ pc = "ret_peformat" =>
          /\ results = <<>>
          /\ log = <<"error: A PEFormatError occurred">>

C3_Witness ==
    /\ PehashResults # {}
    /\ Len(exe.sections) = 2
    /\ exe.sections[2].SizeOfRawData = U(0, 0)

(***************************************************************************)
(* C8.  Fragment order: the fragments are appended in the order image      *)
(* characteristics, machine, stack size, heap size, then per section in    *)
(* table order virtual address, raw size, section characteristics,         *)
(* entropy; the buffer is exactly their concatenation; and when the buffer *)
(* is hashed every section (also one with SizeOfRawData = 0) has           *)
(* contributed its four fragments.                                         *)
(***************************************************************************)
C8_FragmentOrder ==
    /\ Len(appended) <= Len(FragmentOrder(exe))
    /\ \A i \in 1..Len(appended) :
          <<appended[i].kind, appended[i].sect>> = FragmentOrder(exe)[i]
    /\ pehash_bin = Flatten(appended)
    /\ (pc = "sha1" \/ PehashResults # {}) =>
          Len(appended) = Len(FragmentOrder(exe))

C8_Witness ==
    /\ pc = "sha1"
    /\ Len(exe.sections) = 2
    /\ exe.sections[1].SizeOfRawData = U(0, 0)
    /\ exe.sections[2].SizeOfRawData # U(0, 0)
    /\ Len(appended) = 12

(***************************************************************************)
(* C10.  The 'PEhash value' result is there before any step of the lookup; *)
(* a lookup that fails (no API key, network error, XML parse error) ends   *)
(* the scan with no lookup-derived result and with the 'PEhash value'      *)
(* result still first and unchanged; with an empty API key no request is   *)
(* made.                                                                   *)
(***************************************************************************)
C10_LookupFailure ==
    /\ pc \in LookupPcs =>
          /\ results # <<>>
          /\ results[1] = Result("PEhash value", hexdigest(tobytes(pehash_bin)))
    /\ pc \in { "ret_nokey", "ret_network", "ret_parse" } =>
          \A i \in DOMAIN results : results[i].subtype \notin LookupDerived
    /\ requests > 0 => PehashResults = {1}
    /\ key = "" => requests = 0

C10_Witness ==
    /\ pc = "ret_parse"
    /\ requests = 1
    /\ Len(results) = 1

(***************************************************************************)
(* The buffer of _get_pehash as a function of the image, for an image all  *)
(* of whose exclusive ors succeed: the fragments of lines 261-331 put      *)
(* together in the order of the appends.                                   *)
(***************************************************************************)
RECURSIVE SectionBits(_, _)
SectionBits(image, i) ==
    IF i > Len(image.sections) THEN <<>>
    ELSE LET section == image.sections[i]
         IN  sect_va(section.VirtualAddress)
             \o sect_rs_bits(section.SizeOfRawData)
             \o sect_chars_xor(section.Characteristics).bits
             \o Slice(kolmog(image, section), 0, 7)
             \o SectionBits(image, i + 1)

PehashBits(image) ==
    img_chars_xor(image.Characteristics).bits
    \o sub_chars_xor(image.Machine).bits
    \o stk_size_xor(image.SizeOfStackCommit).bits
    \o hp_size_xor(image.SizeOfHeapCommit).bits
    \o SectionBits(image, 1)

\* the image with SizeOfRawData of section i set to size
WithRawSize(image, i, size) ==
    [image EXCEPT !.sections[i].SizeOfRawData = size]

Low24(v) == <<v[1] % 256, v[2]>>

\* sizes a section's SizeOfRawData is changed to
OtherRawSizes ==
    { U(0, \h0020), U(0, \h0021), U(\h0100, \h0010), U(\h1000, \h0010), U(\hFF00, \h0010) }

(***************************************************************************)
(* C1.  When the buffer is handed to SHA-1 its length in bits is a         *)
(* multiple of 8.                                                          *)
(***************************************************************************)
C1_ByteAligned == pc = "sha1" => Len(pehash_bin) % 8 = 0

C4_ScalarFoldingNeverFails == ~(pc = "raised" /\ Len(appended) < 4)

(***************************************************************************)
(* C5.  The fragments of image characteristics and machine are 8 bits:     *)
(* the high byte of the 16-bit field exclusive-ored with its low byte.     *)
(***************************************************************************)
C5_SixteenBitFold ==
    /\ Len(appended) >= 1 =>
          appended[1].bits = Xor8(SubSeq(Bits(exe.Characteristics, 16), 1, 8),
                                  SubSeq(Bits(exe.Characteristics, 16), 9, 16))
    /\ Len(appended) >= 2 =>
          appended[2].bits = Xor8(SubSeq(Bits(exe.Machine, 16), 1, 8),
                                  SubSeq(Bits(exe.Machine, 16), 9, 16))

C7_EntropyBoundary ==
    \A j \in DOMAIN appended :
       (/\ appended[j].kind = "kolmog"
        /\ exe.sections[appended[j].sect].SizeOfRawData = U(0, 0)) =>
          appended[j].bits = <<0, 0, 1, 1, 1, 1, 1, 1>>

(***************************************************************************)
(* C9.  Section characteristics fold: the fragment is 8 bits, the          *)
(* exclusive or of the two lower bytes (bits 16-23, bits 24-31) of the     *)
(* 32-bit field, whatever the upper two bytes are; no value of the field   *)
(* makes the fold fail.                                                    *)
(***************************************************************************)
C9_SectionCharsFold ==
    /\ \A j \in DOMAIN appended :
          appended[j].kind = "sect_chars" =>
             LET c == Bits(exe.sections[appended[j].sect].Characteristics, 32)
             IN  appended[j].bits = Xor8(SubSeq(c, 17, 24), SubSeq(c, 25, 32))
    /\ ~(pc = "raised" /\ Len(appended) >= 4 /\ results = <<>>)

(***************************************************************************)
(* C2, amended.  The buffer's length depends on the sections' fields.      *)
(* When the buffer is handed to SHA-1 it holds 30 bits for the image       *)
(* fields (7 + 7 + 8 + 8) and, for each section, the virtual address       *)
(* packed to whole bytes (two hexadecimal digits per byte), 23 bits of     *)
(* raw size, 7 bits of section characteristics (none when the              *)
(* characteristics have at most four hexadecimal digits) and 7 bits of     *)
(* entropy; SHA-1 gets that many bits filled up to whole bytes.            *)
(***************************************************************************)
VaWidth(section) == 8 * ((HexLen(section.VirtualAddress) + 1) \div 2)

CharsWidth(section) == IF HexLen(section.Characteristics) <= 4 THEN 0 ELSE 7

RECURSIVE SectionWidths(_, _)
SectionWidths(image, i) ==
    IF i > Len(image.sections) THEN 0
    ELSE VaWidth(image.sections[i]) + 23 + CharsWidth(image.sections[i]) + 7
         + SectionWidths(image, i + 1)

ByteAligned(v) ==
    IF HexLen(v) % 2 = 1
    THEN <<(v[1] * 16 + (v[2] \div 4096)) % 65536, (v[2] * 16) % 65536>>
    ELSE v

RawSizeFragment(v) == SubSeq(Bits(ByteAligned(v), 32), 9, 31)

====
